---- MODULE Spec2Model ----
(***************************************************************************)
(* A model of the Markdown blog engine of src/main.go: the post loader     *)
(* (front matter, filename and mtime fallbacks, Markdown rendering), the   *)
(* collection builder (glob, load, sort by date), the live handlers and    *)
(* the static site generator.                                              *)
(*                                                                         *)
(* Strings are sequences of one-character strings, a file is a sequence of *)
(* lines, a timestamp is a natural number and 0 is Go's zero time.Time.    *)
(***************************************************************************)
EXTENDS Naturals, Sequences, FiniteSets

(***************************************************************************)
(* Bounds of the model.                                                    *)
(***************************************************************************)
\* the largest timestamp (front-matter dates and modification times)
MaxDate == 3
\* the largest number of Markdown files of the big directory of SpecDir
MaxPosts == 13
\* the largest number of lines of a front-matter block
MaxFmLines == 2
\* SpecDir: up to this many files, a directory holds files of every kind
SmallDir == 3
\* SpecDir: a larger directory holds at most this many files newer than the rest
MaxNewer == 2
\* SpecLive: the source tree is changed at most this many times
MaxEdits == 1

(***************************************************************************)
(* Strings.                                                                *)
(***************************************************************************)
Lowers ==
    <<"a", "b", "d", "e", "f", "h", "i", "l", "m", "o", "p", "r", "s", "t", "w", "y", "z">>
Uppers ==
    <<"A", "B", "D", "E", "F", "H", "I", "L", "M", "O", "P", "R", "S", "T", "W", "Y", "Z">>

RECURSIVE IndexIn(_, _, _)
IndexIn(c, s, i) ==
    IF i > Len(s) THEN 0 ELSE IF s[i] = c THEN i ELSE IndexIn(c, s, i + 1)

\* unicode.ToUpper / unicode.ToLower on the model's alphabet
ToUpper(c) == IF IndexIn(c, Lowers, 1) > 0 THEN Uppers[IndexIn(c, Lowers, 1)] ELSE c
ToLower(c) == IF IndexIn(c, Uppers, 1) > 0 THEN Lowers[IndexIn(c, Uppers, 1)] ELSE c
IsLetter(c) == IndexIn(c, Lowers, 1) > 0 \/ IndexIn(c, Uppers, 1) > 0

\* the byte order of the model's alphabet
\* (' ' < '#' < '-' < '.' < 'A'.. < '_' < 'a'..)
CharOrder ==
    <<" ", "#", "-", ".">> \o Uppers \o <<"_">> \o Lowers
CharRank(c) == IndexIn(c, CharOrder, 1)

RECURSIVE StrLessFrom(_, _, _)
StrLessFrom(s, t, i) ==
    IF i > Len(t) THEN FALSE
    ELSE IF i > Len(s) THEN TRUE
    ELSE IF s[i] = t[i] THEN StrLessFrom(s, t, i + 1)
    ELSE CharRank(s[i]) < CharRank(t[i])

\* s < t as Go compares strings (bytewise, a proper prefix is smaller)
StrLess(s, t) == StrLessFrom(s, t, 1)

HasSuffix(s, suf) ==
    /\ Len(suf) <= Len(s)
    /\ SubSeq(s, Len(s) - Len(suf) + 1, Len(s)) = suf

\* strings.TrimSuffix
TrimSuffix(s, suf) ==
    IF HasSuffix(s, suf) THEN SubSeq(s, 1, Len(s) - Len(suf)) ELSE s

RECURSIVE LastDot(_, _)
LastDot(s, i) ==
    IF i = 0 THEN 0 ELSE IF s[i] = "." THEN i ELSE LastDot(s, i - 1)

\* filepath.Ext: the suffix beginning at the final dot of the last path element
Ext(name) ==
    IF LastDot(name, Len(name)) = 0 THEN <<>>
    ELSE SubSeq(name, LastDot(name, Len(name)), Len(name))

\* strings.ReplaceAll for a one-character pattern
ReplaceAll(s, old, new) == [i \in 1..Len(s) |-> IF s[i] = old THEN new ELSE s[i]]

\* cases.Title(language.English): the first letter of each word in upper
\* case, every other letter in lower case
TitleCase(s) ==
    [i \in 1..Len(s) |->
        IF i = 1 \/ ~IsLetter(s[i - 1]) THEN ToUpper(s[i]) ELSE ToLower(s[i])]

\* CleanTitle (main.go:130)
CleanTitle(filename) ==
    LET t1 == TrimSuffix(filename, Ext(filename))
        t2 == ReplaceAll(t1, "-", " ")
        t3 == ReplaceAll(t2, "_", " ")
    IN  TitleCase(t3)

MdExt == <<".", "m", "d">>

(***************************************************************************)
(* File contents: lines.                                                   *)
(***************************************************************************)
\* the YAML front-matter delimiter "---"
Delim == [k |-> "---", t |-> <<>>, d |-> 0]
\* "title: <t>"
TitleLine(t) == [k |-> "title", t |-> t, d |-> 0]
\* "date: <d>", d = 0 being 0001-01-01T00:00:00Z
DateLine(d) == [k |-> "date", t |-> <<>>, d |-> d]
\* "date: tomorrow": YAML that does not unmarshal into PostFrontmatter
BadLine == [k |-> "bad", t |-> <<>>, d |-> 0]
\* a line of body text
TextLine(t) == [k |-> "text", t |-> t, d |-> 0]

\* PostFrontmatter{}
EmptyFm == [Title |-> <<>>, Date |-> 0]

RECURSIVE Unmarshal(_, _, _)
\* yaml.Unmarshal of the block into fm: a later key overwrites an earlier
\* one, a line that does not decode is reported at the end and the fields
\* decoded from the other lines stay set
Unmarshal(block, fm, err) ==
    IF block = <<>> THEN [fm |-> fm, err |-> err]
    ELSE LET l == block[1] IN
         IF l.k = "title" THEN Unmarshal(Tail(block), [fm EXCEPT !.Title = l.t], err)
         ELSE IF l.k = "date" THEN Unmarshal(Tail(block), [fm EXCEPT !.Date = l.d], err)
         ELSE Unmarshal(Tail(block), fm, TRUE)

RECURSIVE FindDelim(_, _)
\* the index of the first delimiter line at or after i, 0 when there is none
FindDelim(lines, i) ==
    IF i > Len(lines) THEN 0
    ELSE IF lines[i] = Delim THEN i
    ELSE FindDelim(lines, i + 1)

\* frontmatter.Parse(reader, &fm): [rest, fm, err]
FrontmatterParse(lines) ==
    IF lines = <<>> \/ lines[1] # Delim
    THEN [rest |-> lines, fm |-> EmptyFm, err |-> FALSE]
    ELSE LET e == FindDelim(lines, 2) IN
         IF e = 0
         THEN [rest |-> lines, fm |-> EmptyFm, err |-> FALSE]
         ELSE LET u == Unmarshal(SubSeq(lines, 2, e - 1), EmptyFm, FALSE) IN
              IF u.err
              THEN [rest |-> <<>>, fm |-> u.fm, err |-> TRUE]
              ELSE [rest |-> SubSeq(lines, e + 1, Len(lines)), fm |-> u.fm,
                    err |-> FALSE]

RECURSIVE Markdown(_)
\* goldmark's Convert: a "---" line is a thematic break, or turns the
\* paragraph line before it into a setext heading; any other line is a
\* paragraph of its text
Markdown(lines) ==
    IF lines = <<>> THEN <<>>
    ELSE IF lines[1] = Delim
         THEN <<[tag |-> "hr", src |-> Delim]>> \o Markdown(Tail(lines))
    ELSE IF Len(lines) >= 2 /\ lines[2] = Delim
         THEN <<[tag |-> "h2", src |-> lines[1]]>> \o Markdown(Tail(Tail(lines)))
    ELSE <<[tag |-> "p", src |-> lines[1]]>> \o Markdown(Tail(lines))

(***************************************************************************)
(* The file system.  A tree is a function from the paths that exist, each  *)
(* <<directory, filename>>, to [lines, mtime, readable].                   *)
(***************************************************************************)
\* filepath.Join(dir, name)
Join(dir, name) == <<dir, name>>
\* filepath.Base
Base(path) == path[2]

\* os.ReadFile
ReadFile(path, d) ==
    IF path \notin DOMAIN d THEN [err |-> "ENOENT", data |-> <<>>]
    ELSE IF ~d[path].readable THEN [err |-> "EACCES", data |-> <<>>]
    ELSE [err |-> "nil", data |-> d[path].lines]

\* os.Stat: the search permission of the directory is all it needs
Stat(path, d) ==
    IF path \notin DOMAIN d THEN [err |-> "ENOENT", ModTime |-> 0]
    ELSE [err |-> "nil", ModTime |-> d[path].mtime]

\* os.IsNotExist
IsNotExist(err) == err = "ENOENT"

RECURSIVE SortNames(_)
\* the names of S in lexical order
SortNames(S) ==
    IF S = {} THEN <<>>
    ELSE LET x == CHOOSE y \in S : TRUE
             rest == SortNames(S \ {x})
             k == Cardinality({i \in 1..Len(rest) : StrLess(rest[i], x)})
         IN  SubSeq(rest, 1, k) \o <<x>> \o SubSeq(rest, k + 1, Len(rest))

\* filepath.Glob(dir + "/*.md"): the matching paths in lexical order
Glob(dir, d) ==
    LET names == {p[2] : p \in {q \in DOMAIN d : q[1] = dir /\ HasSuffix(q[2], MdExt)}}
        sorted == SortNames(names)
    IN  [i \in 1..Len(sorted) |-> Join(dir, sorted[i])]

(***************************************************************************)
(* The post loader.                                                        *)
(***************************************************************************)
\* PostData{}
EmptyPost == [Title |-> <<>>, Date |-> 0, Slug |-> <<>>, Content |-> <<>>]

\* time.Time.IsZero
IsZero(t) == t = 0

\* ParseFrontmatter rendering the whole file, block included
ParseFrontmatterKeepsBlock(mdBytes) ==
    LET p == FrontmatterParse(mdBytes) IN
    IF p.err THEN [remainingMd |-> mdBytes, fm |-> EmptyFm]
    ELSE [remainingMd |-> mdBytes, fm |-> p.fm]

\* ParseFrontmatter without the reset of fm after a failed parse
ParseFrontmatterKeepsPartial(mdBytes) ==
    LET p == FrontmatterParse(mdBytes) IN
    IF p.err THEN [remainingMd |-> mdBytes, fm |-> p.fm]
    ELSE [remainingMd |-> p.rest, fm |-> p.fm]

\* main.go:51-57: parse the front matter; on an error go on with the
\* file's bytes and an empty front matter
ParseFrontmatter(mdBytes) ==
    LET p == FrontmatterParse(mdBytes) IN
    IF p.err THEN [remainingMd |-> mdBytes, fm |-> EmptyFm]
    ELSE [remainingMd |-> p.rest, fm |-> p.fm]

\* the slug with the extension left on
SlugOfKeepsExt(filename) == filename

\* main.go:65-67
SlugOf(filename) == TrimSuffix(filename, Ext(filename))

\* main.go:69-73
DetermineTitle(fm, filename) ==
    IF fm.Title = <<>> THEN CleanTitle(filename) ELSE fm.Title

\* DetermineDate without the fallback to the modification time
DetermineDateNoFallback(fm, fileInfo) == fm.Date

\* main.go:75-79
DetermineDate(fm, fileInfo) ==
    IF IsZero(fm.Date) THEN fileInfo.ModTime ELSE fm.Date

\* LoadPostFromFile going on after a failed os.Stat, with the zero ModTime
LoadPostFromFileIgnoresStat(filePath, dRead, dStat, md) ==
    LET rd == ReadFile(filePath, dRead)
        parsed == ParseFrontmatter(rd.data)
        fileInfo == Stat(filePath, dStat)
        filename == Base(filePath)
    IN  IF rd.err # "nil" THEN [post |-> EmptyPost, err |-> rd.err]
        ELSE IF md # "ok" THEN [post |-> EmptyPost, err |-> "render"]
        ELSE [post |-> [Title |-> DetermineTitle(parsed.fm, filename),
                        Date |-> DetermineDate(parsed.fm, fileInfo),
                        Slug |-> SlugOf(filename),
                        Content |-> Markdown(parsed.remainingMd)],
              err |-> "nil"]

\* LoadPostFromFile: dRead is the tree when the file is read, dStat the tree
\* when it is stat'ed, md whether the Markdown renderer works ("ok" | "fail")
LoadPostFromFile(filePath, dRead, dStat, md) ==
    LET rd == ReadFile(filePath, dRead)
        parsed == ParseFrontmatter(rd.data)
        fileInfo == Stat(filePath, dStat)
        filename == Base(filePath)
    IN  IF rd.err # "nil" THEN [post |-> EmptyPost, err |-> rd.err]
        ELSE IF fileInfo.err # "nil" THEN [post |-> EmptyPost, err |-> fileInfo.err]
        ELSE IF md # "ok" THEN [post |-> EmptyPost, err |-> "render"]
        ELSE [post |-> [Title |-> DetermineTitle(parsed.fm, filename),
                        Date |-> DetermineDate(parsed.fm, fileInfo),
                        Slug |-> SlugOf(filename),
                        Content |-> Markdown(parsed.remainingMd)],
              err |-> "nil"]

(***************************************************************************)
(* The collection builder.                                                 *)
(***************************************************************************)
\* pdqsort's maxInsertion: sort.Slice sorts a slice of at most this many
\* elements by insertion
maxInsertion == 12

\* the comparison the wrong way round
Before(t, u) == t < u

\* time.Time.After
After(t, u) == t > u

Swap(s, i, j) == [s EXCEPT ![i] = s[j], ![j] = s[i]]

RECURSIVE InsertLeft(_, _)
InsertLeft(s, j) ==
    IF j > 1 /\ After(s[j].Date, s[j - 1].Date)
    THEN InsertLeft(Swap(s, j, j - 1), j - 1)
    ELSE s

RECURSIVE InsertionSort(_, _)
InsertionSort(s, i) ==
    IF i > Len(s) THEN s ELSE InsertionSort(InsertLeft(s, i), i + 1)

RECURSIVE FirstTie(_, _)
\* the first place i >= from with s[i] and s[i + 1] of one date, 0 if none
FirstTie(s, from) ==
    IF from >= Len(s) THEN 0
    ELSE IF s[from].Date = s[from + 1].Date THEN from
    ELSE FirstTie(s, from + 1)

\* sort.Slice(posts, func(i, j) { posts[i].Date.After(posts[j].Date) }): the
\* sort is not stable.  Up to maxInsertion elements it is an insertion sort,
\* which leaves posts of one date as they were loaded; above, what pdqsort
\* does to posts of one date is left open: with tie = "kept" they stay as
\* loaded, with tie = "moved" the first two neighbours of one date change
\* places.
SortSlice(posts, tie) ==
    LET s == InsertionSort(posts, 2)
        i == FirstTie(s, 1)
    IN  IF Len(posts) <= maxInsertion \/ tie = "kept" \/ i = 0 THEN s
        ELSE Swap(s, i, i + 1)

\* the patterns: dir/*.md, and dir/[.md, which filepath.Match rejects
MdFiles(dir) == [dir |-> dir, glob |-> "*.md"]
BadPattern(dir) == [dir |-> dir, glob |-> "[.md"]

\* filepath.Glob(pattern): ErrBadPattern is its only error
FilepathGlob(pattern, d) ==
    IF pattern.glob = "[.md" THEN [matches |-> <<>>, err |-> "ErrBadPattern"]
    ELSE [matches |-> Glob(pattern.dir, d), err |-> "nil"]

RECURSIVE LoadAllSkipping(_, _, _, _)
\* the loop going on to the next file after a failure
LoadAllSkipping(files, d, md, acc) ==
    IF files = <<>> THEN [posts |-> acc, err |-> "nil", loads |-> Len(acc)]
    ELSE LET r == LoadPostFromFile(files[1], d, d, md) IN
         IF r.err # "nil" THEN LoadAllSkipping(Tail(files), d, md, acc)
         ELSE LoadAllSkipping(Tail(files), d, md, Append(acc, r.post))

RECURSIVE LoadAll(_, _, _, _)
\* main.go:149-156: the first failure ends the loop; loads is the number of
\* calls of LoadPostFromFile made
LoadAll(files, d, md, acc) ==
    IF files = <<>> THEN [posts |-> acc, err |-> "nil", loads |-> Len(acc)]
    ELSE LET r == LoadPostFromFile(files[1], d, d, md) IN
         IF r.err # "nil" THEN [posts |-> <<>>, err |-> r.err, loads |-> Len(acc) + 1]
         ELSE LoadAll(Tail(files), d, md, Append(acc, r.post))

loadPostsFromDirectory(pattern, d, md, tie) ==
    LET files == FilepathGlob(pattern, d)
        r == LoadAll(files.matches, d, md, <<>>)
    IN  IF files.err # "nil" THEN [posts |-> <<>>, err |-> files.err, loads |-> 0]
        ELSE IF r.err # "nil" THEN r
        ELSE [posts |-> SortSlice(r.posts, tie), err |-> "nil", loads |-> r.loads]

LoadBlogPosts(d, md, tie) == loadPostsFromDirectory(MdFiles("posts"), d, md, tie)
LoadThoughtsPosts(d, md, tie) == loadPostsFromDirectory(MdFiles("thoughts"), d, md, tie)

(***************************************************************************)
(* Response writers.  A writer is [kind, status, body]: status 0 is "no    *)
(* header written yet", the body is the sequence of chunks written.        *)
(***************************************************************************)
NewWriter(kind) == [kind |-> kind, status |-> 0, body |-> <<>>]

\* Write: net/http sends the header with status 200 on the first write;
\* mockResponseWriter.Write (main.go:301) only appends to the buffer
Write(w, chunk) ==
    [w EXCEPT !.body = Append(@, chunk),
              !.status = IF w.kind = "live" /\ @ = 0 THEN 200 ELSE @]

\* WriteHeader: net/http ignores it once the header is sent;
\* mockResponseWriter.WriteHeader (main.go:305) stores the code
WriteHeader(w, code) ==
    IF w.kind = "live" /\ w.status # 0 THEN w ELSE [w EXCEPT !.status = code]

PageChunk(name, data) == [kind |-> "page", name |-> name, data |-> data]
PartialChunk(name) == [kind |-> "partial", name |-> name, data |-> <<>>]
ErrorChunk(msg) == [kind |-> "error", name |-> msg, data |-> <<>>]

\* http.Error(w, msg, code)
HttpError(w, msg, code) == Write(WriteHeader(w, code), ErrorChunk(msg))

\* tmpl.Execute(w, data) on templates in condition t: "ok", "failEarly" (an
\* error before anything is written) or "failLate" (an error after part of
\* the page is written)
Execute(w, name, data, t) ==
    CASE t = "ok" -> [w |-> Write(w, PageChunk(name, data)), err |-> FALSE]
      [] t = "failLate" -> [w |-> Write(w, PartialChunk(name)), err |-> TRUE]
      [] OTHER -> [w |-> w, err |-> TRUE]

\* template.Must(template.ParseFiles(base, page)) followed by Execute, with
\* the http.Error of the handlers: t = "missing" makes Must panic
RenderTemplate(w, name, data, t) ==
    IF t = "missing" THEN [w |-> w, panicked |-> TRUE]
    ELSE LET e == Execute(w, name, data, t) IN
         IF e.err
         THEN [w |-> HttpError(e.w, "Error executing template", 500),
               panicked |-> FALSE]
         ELSE [w |-> e.w, panicked |-> FALSE]

(***************************************************************************)
(* The handlers.  Each returns [w, panicked].                              *)
(***************************************************************************)
\* LoadPost giving up after posts/
LoadPostPrimaryOnly(slug, d, md) ==
    LET file == Join("posts", slug \o MdExt) IN
    IF IsNotExist(Stat(file, d).err)
    THEN [post |-> EmptyPost, err |-> Stat(file, d).err]
    ELSE LoadPostFromFile(file, d, d, md)

\* LoadPost (main.go:330)
LoadPost(slug, d, md) ==
    LET first == Join("posts", slug \o MdExt)
        second == Join("thoughts", slug \o MdExt)
    IN  IF IsNotExist(Stat(first, d).err)
        THEN IF IsNotExist(Stat(second, d).err)
             THEN [post |-> EmptyPost, err |-> Stat(second, d).err]
             ELSE LoadPostFromFile(second, d, d, md)
        ELSE LoadPostFromFile(first, d, d, md)

\* PostHandler answering every failed lookup with 500
PostHandlerInternalError(w, slug, d, md, t) ==
    LET r == LoadPost(slug, d, md) IN
    IF r.err # "nil"
    THEN [w |-> HttpError(w, "Post not found", 500), panicked |-> FALSE]
    ELSE RenderTemplate(w, "post.gohtml", <<r.post>>, t)

\* PostHandler (main.go:314), slug being r.URL.Path[len("/post/"):]
PostHandler(w, slug, d, md, t) ==
    LET r == LoadPost(slug, d, md) IN
    IF r.err # "nil"
    THEN [w |-> HttpError(w, "Post not found", 404), panicked |-> FALSE]
    ELSE RenderTemplate(w, "post.gohtml", <<r.post>>, t)

\* postsHandler (main.go:346), posts being what loadPosts() returned
postsHandler(w, posts, templateName, t) ==
    IF posts.err # "nil"
    THEN [w |-> HttpError(w, "Error loading posts", 500), panicked |-> FALSE]
    ELSE RenderTemplate(w, templateName, posts.posts, t)

HomeHandler(w, d, md, tie, t) ==
    postsHandler(w, LoadBlogPosts(d, md, tie), "home.gohtml", t)

ThoughtsHandler(w, d, md, tie, t) ==
    postsHandler(w, LoadThoughtsPosts(d, md, tie), "thoughts.gohtml", t)

AboutPath == Join("nav", <<"a", "b", "o", "u", "t">> \o MdExt)
AboutTitle == <<"A", "b", "o", "u", "t", " ", "M", "e">>

\* RenderMarkdown (main.go:104): a read error is returned, a renderer error
\* panics
RenderMarkdown(filePath, d, md) ==
    LET rd == ReadFile(filePath, d)
        p == FrontmatterParse(rd.data)
        remainingMd == IF p.err THEN rd.data ELSE p.rest
    IN  IF rd.err # "nil" THEN [content |-> <<>>, err |-> rd.err, panicked |-> FALSE]
        ELSE IF md # "ok" THEN [content |-> <<>>, err |-> "nil", panicked |-> TRUE]
        ELSE [content |-> Markdown(remainingMd), err |-> "nil", panicked |-> FALSE]

\* AboutHandler (main.go:381)
AboutHandler(w, d, md, t) ==
    LET c == RenderMarkdown(AboutPath, d, md) IN
    IF c.panicked THEN [w |-> w, panicked |-> TRUE]
    ELSE IF c.err # "nil"
    THEN [w |-> HttpError(w, "Error loading about page", 500), panicked |-> FALSE]
    ELSE RenderTemplate(w, "about.gohtml",
                        <<[Title |-> AboutTitle, Date |-> 0, Slug |-> <<>>,
                           Content |-> c.content]>>, t)

\* the handler http.HandleFunc registered for a page (main.go:186-189)
Handle(page, slug, w, d, md, tie, t) ==
    CASE page = "home" -> HomeHandler(w, d, md, tie, t)
      [] page = "about" -> AboutHandler(w, d, md, t)
      [] page = "thoughts" -> ThoughtsHandler(w, d, md, tie, t)
      [] OTHER -> PostHandler(w, slug, d, md, t)

\* an output path outputDir/dir/slug/file, dir and slug possibly empty
OutPath(dir, slug, file) == <<dir, slug, file>>


(***************************************************************************)
(* The inputs: file names and file contents.                               *)
(***************************************************************************)
NameMyFirstPost ==
    <<"m", "y", "-", "f", "i", "r", "s", "t", "_", "p", "o", "s", "t">> \o MdExt
NameAB == <<"a", "B">> \o MdExt
NameB == <<"b">> \o MdExt

Names == {NameMyFirstPost, NameAB, NameB}

BoundedSeqs(S, n) == UNION {[1..k -> S] : k \in 0..n}

InsertAt(s, i, x) == SubSeq(s, 1, i) \o <<x>> \o SubSeq(s, i + 1, Len(s))

FmTitles == {<<>>, <<"T">>}
FmLines == {TitleLine(t) : t \in FmTitles} \cup {DateLine(d) : d \in 0..MaxDate}
Blocks == BoundedSeqs(FmLines, MaxFmLines)
BadBlocks ==
    UNION {{InsertAt(b, i, BadLine) : i \in 0..Len(b)} :
              b \in BoundedSeqs(FmLines, MaxFmLines - 1)}

TextX == TextLine(<<"x">>)
TextY == TextLine(<<"y">>)
PlainBodies == {<<>>, <<TextX>>, <<TextX, TextY>>}
Bodies == PlainBodies \cup {<<TextX, Delim, TextY>>, <<Delim, TextX>>}

\* A file is put together from a shape: "ok" is a closed block that
\* unmarshals, "bad" a closed block with a line that does not, "open" a
\* block that is never closed, "none" a file that does not begin with "---"
Shapes ==
    [kind : {"ok"}, block : Blocks, body : Bodies]
        \cup [kind : {"bad"}, block : BadBlocks, body : Bodies]
        \cup [kind : {"open"}, block : Blocks, body : PlainBodies]
        \cup [kind : {"none"}, block : {<<>>}, body : PlainBodies]

RawOf(sh) ==
    CASE sh.kind \in {"ok", "bad"} -> <<Delim>> \o sh.block \o <<Delim>> \o sh.body
      [] sh.kind = "open" -> <<Delim>> \o sh.block \o sh.body
      [] OTHER -> sh.body

NoShape == [kind |-> "none", block |-> <<>>, body |-> <<>>]

(***************************************************************************)
(* The state.                                                              *)
(***************************************************************************)
VARIABLES
    disk,     \* the source tree: posts/, thoughts/, nav/
    shape,    \* SpecLoad: the shape the file under test was put together from
    md,       \* the Markdown renderer: "ok" | "fail"
    tie,      \* what sort.Slice does to equal dates above maxInsertion
    loaded,   \* the last call of LoadPostFromFile (of LoadPost, in Spec), the
              \* tree before it began, and what it returned
    coll,     \* the last call of loadPostsFromDirectory and what it returned
    tmpl,     \* the templates: "ok" | "missing" | "failEarly" | "failLate"
    mode,     \* main's argument: "serve" | "generate"
    resp,     \* the last live request and the response the client got
    gen,      \* the static generator: [pc, queue, log, run, first]
    out,      \* the output tree: path -> the bytes written
    inv,      \* SpecLive: the handler invocations in flight, each with its
              \* own local variables
    edits     \* SpecLive: the number of changes made to the source tree

vars == <<disk, shape, md, tie, loaded, coll, tmpl, mode, resp, gen, out, inv, edits>>
liveVars == <<inv, edits>>
envVars == <<disk, shape, md, tie, tmpl, mode>>
siteVars == <<resp, gen, out>>

NoLoad ==
    [called |-> FALSE, path |-> Join("", <<>>), before |-> <<>>, post |-> EmptyPost,
     err |-> "nil"]
NoColl == [called |-> FALSE, dir |-> "", posts |-> <<>>, err |-> "nil", loads |-> 0]
NoResp == [page |-> "", slug |-> <<>>, status |-> 0, body |-> <<>>, aborted |-> FALSE]
NoOut == [p \in {} |-> <<>>]
\* run counts the runs of the generator, first is the output tree as the
\* first run left it
NoGen == [pc |-> "off", queue |-> <<>>, log |-> <<>>, run |-> 0, first |-> NoOut]
\* the site is not run
\* no invocation
NoInv == <<>>
SiteOff ==
    /\ tmpl = "ok" /\ mode = "serve" /\ resp = NoResp /\ gen = NoGen /\ out = NoOut
    /\ inv = NoInv /\ edits = 0

(***************************************************************************)
(* SpecLoad: one file, loaded by LoadPostFromFile.                         *)
(***************************************************************************)
InitLoad ==
    /\ \E name \in Names, sh \in Shapes, mt \in 1..MaxDate, rd \in BOOLEAN :
          /\ shape = sh
          /\ disk = [p \in {Join("posts", name)} |->
                        [lines |-> RawOf(sh), mtime |-> mt, readable |-> rd]]
    /\ md \in {"ok", "fail"}
    /\ tie = "kept"
    /\ loaded = NoLoad
    /\ coll = NoColl
    /\ SiteOff

\* a path at which there is no file
NoSuchPath == Join("thoughts", NameB)
\* os.Remove(path)
Without(d, path) == [p \in DOMAIN d \ {path} |-> d[p]]

\* a call LoadPostFromFile(path) whose os.Stat finds the tree dStat
LoadWith(path, dStat) ==
    /\ ~loaded.called
    /\ LET r == LoadPostFromFile(path, disk, dStat, md) IN
       loaded' = [called |-> TRUE, path |-> path, before |-> disk, post |-> r.post,
                  err |-> r.err]
    /\ disk' = dStat
    /\ UNCHANGED <<liveVars, shape, md, tie, tmpl, mode, siteVars, coll>>

\* a call LoadPostFromFile(path) during which nothing else touches the tree
LoadFile == \E path \in DOMAIN disk \cup {NoSuchPath} : LoadWith(path, disk)

\* a call LoadPostFromFile(path) with the file removed by another process
\* between os.ReadFile (main.go:45) and os.Stat (main.go:60)
LoadFileRemoved == \E path \in DOMAIN disk : LoadWith(path, Without(disk, path))

NextLoad == LoadFile \/ LoadFileRemoved

SpecLoad == InitLoad /\ [][NextLoad]_vars


(***************************************************************************)
(* SpecDir: one directory of Markdown files, loaded by                     *)
(* loadPostsFromDirectory.                                                 *)
(***************************************************************************)
\* "a", "aa", "aaa", ...
DirSlug(i) == [k \in 1..i |-> "a"]
DirName(i) == DirSlug(i) \o MdExt
\* a file of the directory that the pattern *.md does not match
NameNotes == <<"b">>

PlainFile(mt) == [lines |-> <<TextX>>, mtime |-> mt, readable |-> TRUE]
DatedFile(d) ==
    [lines |-> <<Delim, DateLine(d), Delim, TextX>>, mtime |-> 1, readable |-> TRUE]
LockedFile == [lines |-> <<TextX>>, mtime |-> 1, readable |-> FALSE]

DirFiles ==
    {PlainFile(mt) : mt \in 1..MaxDate} \cup {DatedFile(MaxDate), LockedFile}

\* the contents of a directory of n Markdown files
DirContents(n) ==
    IF n <= SmallDir THEN [1..n -> DirFiles]
    ELSE {[i \in 1..n |-> IF i \in S THEN PlainFile(2) ELSE PlainFile(1)] :
             S \in {T \in SUBSET (1..n) : Cardinality(T) <= MaxNewer}}

InitDir ==
    /\ \E dir \in {"posts", "thoughts"}, n \in 0..MaxPosts, notes \in BOOLEAN :
          \E files \in DirContents(n) :
             /\ n > SmallDir => (dir = "posts" /\ ~notes)
             /\ disk = [p \in {Join(dir, DirName(i)) : i \in 1..n}
                              \cup (IF notes THEN {Join(dir, NameNotes)} ELSE {}) |->
                           IF p[2] = NameNotes THEN PlainFile(MaxDate)
                           ELSE files[Len(p[2]) - Len(MdExt)]]
             /\ tie \in (IF n > maxInsertion THEN {"kept", "moved"} ELSE {"kept"})
    /\ shape = NoShape
    /\ md = "ok"
    /\ loaded = NoLoad
    /\ coll = NoColl
    /\ SiteOff

\* calls of LoadBlogPosts() and LoadThoughtsPosts()
CallLoadBlogPosts ==
    /\ ~coll.called
    /\ LET r == LoadBlogPosts(disk, md, tie) IN
       coll' = [called |-> TRUE, dir |-> "posts", posts |-> r.posts, err |-> r.err,
                loads |-> r.loads]
    /\ UNCHANGED <<liveVars, envVars, siteVars, loaded>>

CallLoadThoughtsPosts ==
    /\ ~coll.called
    /\ LET r == LoadThoughtsPosts(disk, md, tie) IN
       coll' = [called |-> TRUE, dir |-> "thoughts", posts |-> r.posts, err |-> r.err,
                loads |-> r.loads]
    /\ UNCHANGED <<liveVars, envVars, siteVars, loaded>>

\* a call of loadPostsFromDirectory with a pattern that filepath.Glob
\* rejects (LoadBlogPosts and LoadThoughtsPosts pass none)
CallLoadBadPattern ==
    /\ ~coll.called
    /\ \E dir \in {"posts", "thoughts"} :
          LET r == loadPostsFromDirectory(BadPattern(dir), disk, md, tie) IN
          coll' = [called |-> TRUE, dir |-> dir \o "/[", posts |-> r.posts,
                   err |-> r.err, loads |-> r.loads]
    /\ UNCHANGED <<liveVars, envVars, siteVars, loaded>>

NextDir == CallLoadBlogPosts \/ CallLoadThoughtsPosts \/ CallLoadBadPattern

SpecDir == InitDir /\ [][NextDir]_vars

(***************************************************************************)
(* Spec: the program of main(), serving requests or generating the site,   *)
(* over a source tree of two content directories and nav/about.md.         *)
(***************************************************************************)
NameHelloWorld ==
    <<"h", "e", "l", "l", "o", "-", "w", "o", "r", "l", "d">> \o MdExt
SiteNames == {NameHelloWorld, NameB}
SitePaths == {Join(dir, name) : dir \in {"posts", "thoughts"}, name \in SiteNames}
SiteFiles == {PlainFile(1), DatedFile(MaxDate), LockedFile}
\* a file name with a character that means something in a URL, and the
\* files of that name
NameBHash == <<"b", "#">> \o MdExt
HashFiles ==
    [p \in {Join("posts", NameBHash), Join("thoughts", NameBHash)} |->
        IF p[1] = "posts" THEN PlainFile(1) ELSE DatedFile(MaxDate)]
\* the slugs a client asks for: those of the names, the empty one, another
RequestSlugs == {SlugOf(name) : name \in SiteNames} \cup {<<>>, <<"z", "z">>}

Init ==
    /\ \E present \in SUBSET SitePaths, hash \in {{}, DOMAIN HashFiles},
             about \in BOOLEAN :
          \E content \in [present -> SiteFiles] :
             disk = [p \in present \cup hash \cup (IF about THEN {AboutPath} ELSE {}) |->
                        IF p = AboutPath THEN PlainFile(1)
                        ELSE IF p \in hash THEN HashFiles[p]
                        ELSE content[p]]
    /\ shape = NoShape
    /\ md \in {"ok", "fail"}
    /\ tie = "kept"
    /\ tmpl \in {"ok", "missing", "failEarly", "failLate"}
    /\ mode \in {"serve", "generate"}
    /\ loaded = NoLoad
    /\ coll = NoColl
    /\ resp = NoResp
    /\ gen = IF mode = "generate" THEN [NoGen EXCEPT !.pc = "start", !.run = 1]
             ELSE NoGen
    /\ out = NoOut
    /\ inv = NoInv
    /\ edits = 0

\* what the client of the live server gets: a handler that panics is
\* recovered by net/http, which closes the connection without a response; a
\* handler that returns without writing has answered 200
Respond(page, slug, h) ==
    [page |-> page, slug |-> slug,
     status |-> IF h.panicked /\ h.w.status = 0 THEN 0
                ELSE IF h.w.status = 0 THEN 200 ELSE h.w.status,
     body |-> h.w.body,
     aborted |-> h.panicked]

\* GET / , /about and /thoughts (main.go:186-188)
Serve(page) ==
    /\ mode = "serve"
    /\ resp' = Respond(page, <<>>,
                       Handle(page, <<>>, NewWriter("live"), disk, md, tie, tmpl))
    /\ loaded' = NoLoad
    /\ UNCHANGED <<liveVars, envVars, coll, gen, out>>

ServeHome == Serve("home")
ServeAbout == Serve("about")
ServeThoughts == Serve("thoughts")

\* GET /post/<slug> (main.go:189); loaded records what the handler's call of
\* LoadPost(slug) returned (the other handlers make no such call)
ServePost ==
    /\ mode = "serve"
    /\ \E slug \in RequestSlugs :
          /\ resp' = Respond("post", slug,
                             PostHandler(NewWriter("live"), slug, disk, md, tmpl))
          /\ LET r == LoadPost(slug, disk, md) IN
             loaded' = [called |-> TRUE, path |-> Join("/post/", slug),
                        before |-> disk, post |-> r.post, err |-> r.err]
    /\ UNCHANGED <<liveVars, envVars, coll, gen, out>>

\* os.WriteFile opening the file to append (O_APPEND for O_TRUNC)
PutAppending(tree, path, bytes) ==
    [p \in DOMAIN tree \cup {path} |->
        IF p # path THEN tree[p]
        ELSE IF path \in DOMAIN tree THEN tree[path] \o bytes ELSE bytes]

\* os.WriteFile(outputPath, bytes)
Put(tree, path, bytes) ==
    [p \in DOMAIN tree \cup {path} |-> IF p = path THEN bytes ELSE tree[p]]

\* generatePage (main.go:271) for the page whose handler returned h: the
\* handler's error is always nil (main.go:203), MkdirAll or WriteFile may
\* fail; a panic of the handler ends the process
GeneratePage(h, path, next) ==
    IF h.panicked
    THEN /\ gen' = [gen EXCEPT !.pc = "panic"]
         /\ out' = out
    ELSE \/ /\ out' = Put(out, path, h.w.body)
            /\ gen' = [next EXCEPT !.log =
                          Append(@, [path |-> path, status |-> h.w.status,
                                     written |-> TRUE])]
         \/ /\ out' = out
            /\ gen' = [gen EXCEPT !.pc = "fatal", !.log =
                          Append(@, [path |-> path, status |-> h.w.status,
                                     written |-> FALSE])]

\* main.go:196: os.MkdirAll(outputDir)
GenMkdir ==
    /\ gen.pc = "start"
    /\ \/ gen' = [gen EXCEPT !.pc = "home"]
       \/ gen' = [gen EXCEPT !.pc = "fatal"]
    /\ UNCHANGED <<liveVars, envVars, loaded, coll, resp, out>>

\* main.go:200-206
GenHome ==
    /\ gen.pc = "home"
    /\ GeneratePage(HomeHandler(NewWriter("mock"), disk, md, tie, tmpl),
                    OutPath("", <<>>, "index.html"), [gen EXCEPT !.pc = "about"])
    /\ UNCHANGED <<liveVars, envVars, loaded, coll, resp>>

\* main.go:208-214
GenAbout ==
    /\ gen.pc = "about"
    /\ GeneratePage(AboutHandler(NewWriter("mock"), disk, md, tmpl),
                    OutPath("", <<>>, "about.html"), [gen EXCEPT !.pc = "thoughts"])
    /\ UNCHANGED <<liveVars, envVars, loaded, coll, resp>>

\* main.go:216-222
GenThoughts ==
    /\ gen.pc = "thoughts"
    /\ GeneratePage(ThoughtsHandler(NewWriter("mock"), disk, md, tie, tmpl),
                    OutPath("", <<>>, "thoughts.html"),
                    [gen EXCEPT !.pc = "globPosts"])
    /\ UNCHANGED <<liveVars, envVars, loaded, coll, resp>>

\* main.go:224-227
GenGlobPosts ==
    /\ gen.pc = "globPosts"
    /\ gen' = [gen EXCEPT !.pc = "posts", !.queue = Glob("posts", disk)]
    /\ UNCHANGED <<liveVars, envVars, loaded, coll, resp, out>>

RECURSIVE UpTo(_, _, _)
\* the part of s before its first c
UpTo(s, c, i) ==
    IF i > Len(s) THEN s ELSE IF s[i] = c THEN SubSeq(s, 1, i - 1) ELSE UpTo(s, c, i + 1)

\* main.go:233-236 and :255-258 with main.go:316: url.Parse("/post/" + slug)
\* takes what follows a '#' as the fragment, and PostHandler's slug is what
\* is left of r.URL.Path after "/post/"
RequestSlug(slug) == UpTo(slug, "#", 1)

\* the slug with the extension left on
GenSlugKeepsExt(file) == Base(file)

\* main.go:230 and :252
GenSlug(file) == TrimSuffix(Base(file), Ext(Base(file)))

\* one round of the loops of main.go:229-243 and main.go:251-265
GenPostPage ==
    /\ gen.pc \in {"posts", "thoughtsPosts"}
    /\ gen.queue # <<>>
    /\ LET slug == GenSlug(Head(gen.queue)) IN
       GeneratePage(PostHandler(NewWriter("mock"), RequestSlug(slug), disk, md, tmpl),
                    OutPath("post", slug, "index.html"),
                    [gen EXCEPT !.queue = Tail(@)])
    /\ UNCHANGED <<liveVars, envVars, loaded, coll, resp>>

\* main.go:246-249
GenGlobThoughts ==
    /\ gen.pc = "posts"
    /\ gen.queue = <<>>
    /\ gen' = [gen EXCEPT !.pc = "thoughtsPosts", !.queue = Glob("thoughts", disk)]
    /\ UNCHANGED <<liveVars, envVars, loaded, coll, resp, out>>

\* main.go:267 and main.go:179-183: GenerateStaticSite returns nil and main
\* prints "Static site generated successfully!"
GenReturn ==
    /\ gen.pc = "thoughtsPosts"
    /\ gen.queue = <<>>
    /\ gen' = [gen EXCEPT !.pc = "success"]
    /\ UNCHANGED <<liveVars, envVars, loaded, coll, resp, out>>

\* the program is run with --generate once more (main.go:178), over the
\* output tree the first run left and the same source tree
GenAgain ==
    /\ gen.pc = "success"
    /\ gen.run = 1
    /\ gen' = [NoGen EXCEPT !.pc = "start", !.run = 2, !.first = out]
    /\ UNCHANGED <<liveVars, envVars, loaded, coll, resp, out>>

Next ==
    \/ ServeHome
    \/ ServeAbout
    \/ ServeThoughts
    \/ ServePost
    \/ GenMkdir
    \/ GenHome
    \/ GenAbout
    \/ GenThoughts
    \/ GenGlobPosts
    \/ GenPostPage
    \/ GenGlobThoughts
    \/ GenReturn
    \/ GenAgain

Spec == Init /\ [][Next]_vars

(***************************************************************************)
(* SpecLive: the live server with two requests in flight at a time, each   *)
(* handler invocation a goroutine of net/http going through its calls one  *)
(* at a time, and the source tree changing under them.                     *)
(***************************************************************************)
\* the requests, named in the order in which net/http accepts them
Reqs == {"r1", "r2"}
Earlier(r) == IF r = "r2" THEN {"r1"} ELSE {}
LivePaths ==
    {Join("posts", NameB), Join("posts", NameHelloWorld), Join("thoughts", NameB)}
LiveFiles == {PlainFile(1), DatedFile(MaxDate)}
LiveSlugs == {SlugOf(NameB)}

\* an invocation: where it stands, its request, its local variables (file,
\* files, posts, err), the response it wrote; seen is the tree when it
\* began, clean says that the tree has not changed since
Idle ==
    [pc |-> "idle", page |-> "", slug |-> <<>>, file |-> Join("", <<>>),
     queue |-> <<>>, posts |-> <<>>, err |-> "nil", resp |-> NoResp,
     seen |-> <<>>, clean |-> TRUE]

InitLive ==
    /\ \E present \in SUBSET LivePaths :
          \E content \in [present -> LiveFiles] : disk = content
    /\ shape = NoShape
    /\ md = "ok"
    /\ tie = "kept"
    /\ tmpl = "ok"
    /\ mode = "serve"
    /\ loaded = NoLoad
    /\ coll = NoColl
    /\ resp = NoResp
    /\ gen = NoGen
    /\ out = NoOut
    /\ inv = [r \in Reqs |-> Idle]
    /\ edits = 0

LiveRest == <<shape, md, tie, tmpl, mode, loaded, coll, resp, gen, out>>

\* posts declared at package level: every invocation uses the slice of r1
PostsShared(invs, r) == invs["r1"].posts

\* main.go:149: var posts []PostData, a local variable of the call
Posts(invs, r) == invs[r].posts

\* net/http starts HomeHandler for a GET /
AcceptHome(r) ==
    /\ inv[r].pc = "idle"
    /\ \A q \in Earlier(r) : inv[q].pc # "idle"
    /\ inv' = [inv EXCEPT ![r] = [Idle EXCEPT !.pc = "glob", !.page = "home",
                                              !.seen = disk]]
    /\ UNCHANGED <<disk, edits, LiveRest>>

\* net/http starts PostHandler for a GET /post/<slug>
AcceptPost(r) ==
    /\ inv[r].pc = "idle"
    /\ \A q \in Earlier(r) : inv[q].pc # "idle"
    /\ \E slug \in LiveSlugs :
          inv' = [inv EXCEPT ![r] = [Idle EXCEPT !.pc = "statFirst", !.page = "post",
                                                !.slug = slug, !.seen = disk]]
    /\ UNCHANGED <<disk, edits, LiveRest>>

\* main.go:144
HomeGlob(r) ==
    /\ inv[r].pc = "glob"
    /\ LET files == FilepathGlob(MdFiles("posts"), disk) IN
       inv' = [inv EXCEPT ![r].queue = files.matches, ![r].pc = "load"]
    /\ UNCHANGED <<disk, edits, LiveRest>>

\* main.go:149-156, one round of the loop
HomeLoad(r) ==
    /\ inv[r].pc = "load"
    /\ inv[r].page = "home"
    /\ inv[r].queue # <<>>
    /\ LET l == LoadPostFromFile(Head(inv[r].queue), disk, disk, md) IN
       inv' = IF l.err # "nil"
              THEN [inv EXCEPT ![r].err = l.err, ![r].posts = <<>>, ![r].pc = "render"]
              ELSE [inv EXCEPT ![r].posts = Append(Posts(inv, r), l.post),
                               ![r].queue = Tail(@)]
    /\ UNCHANGED <<disk, edits, LiveRest>>

\* main.go:158-163
HomeSort(r) ==
    /\ inv[r].pc = "load"
    /\ inv[r].page = "home"
    /\ inv[r].queue = <<>>
    /\ inv' = [inv EXCEPT ![r].posts = SortSlice(Posts(inv, r), tie),
                          ![r].pc = "render"]
    /\ UNCHANGED <<disk, edits, LiveRest>>

\* main.go:349-367
HomeRender(r) ==
    /\ inv[r].pc = "render"
    /\ inv[r].page = "home"
    /\ inv' = [inv EXCEPT
                 ![r].resp = Respond("home", <<>>,
                                postsHandler(NewWriter("live"),
                                             [posts |-> Posts(inv, r), err |-> inv[r].err],
                                             "home.gohtml", tmpl)),
                 ![r].pc = "done"]
    /\ UNCHANGED <<disk, edits, LiveRest>>

\* main.go:332-333
PostStatFirst(r) ==
    /\ inv[r].pc = "statFirst"
    /\ LET file == Join("posts", inv[r].slug \o MdExt) IN
       inv' = IF IsNotExist(Stat(file, disk).err)
              THEN [inv EXCEPT ![r].pc = "statSecond"]
              ELSE [inv EXCEPT ![r].file = file, ![r].pc = "load"]
    /\ UNCHANGED <<disk, edits, LiveRest>>

\* main.go:335-338
PostStatSecond(r) ==
    /\ inv[r].pc = "statSecond"
    /\ LET file == Join("thoughts", inv[r].slug \o MdExt) IN
       inv' = IF IsNotExist(Stat(file, disk).err)
              THEN [inv EXCEPT ![r].err = Stat(file, disk).err, ![r].pc = "render"]
              ELSE [inv EXCEPT ![r].file = file, ![r].pc = "load"]
    /\ UNCHANGED <<disk, edits, LiveRest>>

\* main.go:342
PostLoad(r) ==
    /\ inv[r].pc = "load"
    /\ inv[r].page = "post"
    /\ LET l == LoadPostFromFile(inv[r].file, disk, disk, md) IN
       inv' = [inv EXCEPT ![r].err = l.err,
                          ![r].posts = IF l.err = "nil" THEN <<l.post>> ELSE <<>>,
                          ![r].pc = "render"]
    /\ UNCHANGED <<disk, edits, LiveRest>>

\* main.go:318-327
PostRender(r) ==
    /\ inv[r].pc = "render"
    /\ inv[r].page = "post"
    /\ LET w == NewWriter("live")
           h == IF inv[r].err # "nil"
                THEN [w |-> HttpError(w, "Post not found", 404), panicked |-> FALSE]
                ELSE RenderTemplate(w, "post.gohtml", Posts(inv, r), tmpl)
       IN  inv' = [inv EXCEPT ![r].resp = Respond("post", inv[r].slug, h),
                              ![r].pc = "done"]
    /\ UNCHANGED <<disk, edits, LiveRest>>

\* the invocations in flight have seen a tree that is no more
Disturbed(invs) ==
    [r \in Reqs |-> IF invs[r].pc \in {"idle", "done"} THEN invs[r]
                    ELSE [invs[r] EXCEPT !.clean = FALSE]]

\* somebody writes a Markdown file of the source tree
WriteSource ==
    /\ edits < MaxEdits
    /\ \E path \in LivePaths, f \in LiveFiles :
          /\ IF path \in DOMAIN disk THEN disk[path] # f ELSE TRUE
          /\ disk' = Put(disk, path, f)
    /\ inv' = Disturbed(inv)
    /\ edits' = edits + 1
    /\ UNCHANGED LiveRest

\* somebody removes a Markdown file of the source tree
RemoveSource ==
    /\ edits < MaxEdits
    /\ \E path \in DOMAIN disk : disk' = Without(disk, path)
    /\ inv' = Disturbed(inv)
    /\ edits' = edits + 1
    /\ UNCHANGED LiveRest

NextLive ==
    \/ \E r \in Reqs :
          \/ AcceptHome(r)
          \/ AcceptPost(r)
          \/ HomeGlob(r)
          \/ HomeLoad(r)
          \/ HomeSort(r)
          \/ HomeRender(r)
          \/ PostStatFirst(r)
          \/ PostStatSecond(r)
          \/ PostLoad(r)
          \/ PostRender(r)
    \/ WriteSource
    \/ RemoveSource

SpecLive == InitLive /\ [][NextLive]_vars

(***************************************************************************)
(* Properties.                                                             *)
(***************************************************************************)
\* the values of the title lines and of the date lines of a block
TitlesIn(block) == {block[i].t : i \in {j \in 1..Len(block) : block[j].k = "title"}}
DatesIn(block) == {block[i].d : i \in {j \in 1..Len(block) : block[j].k = "date"}}

\* the humanized file names, written out
Humanized(name) ==
    CASE name = NameMyFirstPost ->
            <<"M", "y", " ", "F", "i", "r", "s", "t", " ", "P", "o", "s", "t">>
      [] name = NameAB -> <<"A", "b">>
      [] OTHER -> <<"B">>

LoadedOk == loaded.called /\ loaded.err = "nil"

\* C3 as stated: a file with a well-formed front-matter block holding a title
\* and a date loads with exactly that title and that date, and its content
\* is the rendering of the body alone.
C3_FrontMatterValuesAsStated ==
    (LoadedOk /\ shape.kind = "ok") =>
        \A t \in TitlesIn(shape.block), d \in DatesIn(shape.block) :
            (TitlesIn(shape.block) = {t} /\ DatesIn(shape.block) = {d}) =>
                /\ loaded.post.Title = t
                /\ loaded.post.Date = d
                /\ loaded.post.Content = Markdown(shape.body)

\* C3 amended: a file with a well-formed front-matter block holding a
\* non-empty title and a non-zero date loads with exactly that title and that
\* date, and its content is the rendering of the body alone.
C3_FrontMatterValues ==
    (LoadedOk /\ shape.kind = "ok") =>
        \A t \in TitlesIn(shape.block), d \in DatesIn(shape.block) :
            (TitlesIn(shape.block) = {t} /\ DatesIn(shape.block) = {d}
                /\ t # <<>> /\ ~IsZero(d)) =>
                /\ loaded.post.Title = t
                /\ loaded.post.Date = d
                /\ loaded.post.Content = Markdown(shape.body)

C3_Witness ==
    /\ LoadedOk
    /\ shape.kind = "ok"
    /\ TitlesIn(shape.block) = {<<"T">>}
    /\ \E d \in 1..MaxDate :
          DatesIn(shape.block) = {d} /\ d # disk[loaded.path].mtime
    /\ shape.body = <<TextX, Delim, TextY>>
    /\ loaded.post.Title = <<"T">>

\* C4: the title is the front-matter title when that is non-empty and the
\* humanized file name otherwise; the date is the front-matter date when that
\* is non-zero and the modification time otherwise; each on its own, and the
\* date is never the zero time.
C4_IndependentFallbacks ==
    LoadedOk =>
        LET titles == IF shape.kind = "ok" THEN TitlesIn(shape.block) ELSE {}
            dates == IF shape.kind = "ok" THEN DatesIn(shape.block) ELSE {}
            name == Base(loaded.path)
            f == disk[loaded.path]
        IN  /\ titles \subseteq {<<>>} => loaded.post.Title = Humanized(name)
            /\ \A t \in titles :
                  (titles = {t} /\ t # <<>>) => loaded.post.Title = t
            /\ dates \subseteq {0} => loaded.post.Date = f.mtime
            /\ \A d \in dates :
                  (dates = {d} /\ d # 0) => loaded.post.Date = d
            /\ ~IsZero(loaded.post.Date)

C4_Witness ==
    /\ LoadedOk
    /\ shape.kind = "ok"
    /\ TitlesIn(shape.block) = {}
    /\ \E d \in 1..MaxDate :
          /\ DatesIn(shape.block) = {d}
          /\ d # disk[loaded.path].mtime
          /\ loaded.post.Date = d
    /\ Base(loaded.path) = NameMyFirstPost
    /\ loaded.post.Title = Humanized(NameMyFirstPost)

\* C5: a readable file with a malformed front-matter block loads without an
\* error, with the humanized file name, the modification time and the
\* rendering of the whole file, whatever the parser had decoded.
C5_MalformedDegrades ==
    (loaded.called /\ shape.kind \in {"bad", "open"} /\ loaded.path \in DOMAIN disk
        /\ disk[loaded.path].readable /\ md = "ok") =>
        /\ loaded.err = "nil"
        /\ loaded.post.Title = Humanized(Base(loaded.path))
        /\ loaded.post.Date = disk[loaded.path].mtime
        /\ loaded.post.Content = Markdown(disk[loaded.path].lines)

C5_Witness ==
    /\ LoadedOk
    /\ shape.kind = "bad"
    /\ shape.block = <<TitleLine(<<"T">>), BadLine>>
    /\ loaded.post.Title = Humanized(Base(loaded.path))
    /\ loaded.post.Content # Markdown(shape.body)

\* SpecDir: the number of Markdown files of the directory last loaded, the
\* date its i-th file (in glob order) is given, and where a slug stands in
\* the collection
NFiles == Cardinality({p \in DOMAIN disk : p[1] = coll.dir /\ p[2] # NameNotes})
FileDate(i) ==
    LET f == disk[Join(coll.dir, DirName(i))] IN
    IF f.lines[1] = Delim THEN f.lines[2].d ELSE f.mtime
PlacesOf(slug) == {k \in 1..Len(coll.posts) : coll.posts[k].Slug = slug}
CollOk == coll.called /\ coll.err = "nil"
DistinctDates == \A i, j \in 1..NFiles : i # j => FileDate(i) # FileDate(j)

\* C1: N matched files with pairwise distinct dates give a collection of
\* exactly N records, strictly descending by date, holding the slug of every
\* matched file exactly once.
C1_DistinctDatesSorted ==
    (CollOk /\ DistinctDates) =>
        /\ Len(coll.posts) = NFiles
        /\ \A k \in 1..(Len(coll.posts) - 1) :
              coll.posts[k].Date > coll.posts[k + 1].Date
        /\ \A i \in 1..NFiles : Cardinality(PlacesOf(DirSlug(i))) = 1

C1_Witness ==
    /\ CollOk
    /\ DistinctDates
    /\ NFiles = 3
    /\ FileDate(1) < FileDate(3)
    /\ FileDate(3) < FileDate(2)
    /\ NameNotes \in {p[2] : p \in DOMAIN disk}
    /\ coll.posts[1].Slug = DirSlug(2)
    /\ coll.posts[3].Slug = DirSlug(1)

\* C2: two posts of the same date stand in the collection in the order in
\* which they were loaded, however many posts there are.
C2_SortIsStable ==
    CollOk =>
        \A i, j \in 1..NFiles :
            (i < j /\ FileDate(i) = FileDate(j)) =>
                \A ki \in PlacesOf(DirSlug(i)), kj \in PlacesOf(DirSlug(j)) : ki < kj

\* Spec: the file LoadPost(slug) settles on, if any
PrimaryPath(slug) == Join("posts", slug \o MdExt)
SecondaryPath(slug) == Join("thoughts", slug \o MdExt)
InPrimary(slug) == PrimaryPath(slug) \in DOMAIN disk
InSecondary(slug) == SecondaryPath(slug) \in DOMAIN disk
PostRequested == resp.page = "post" /\ loaded.called
\* the date a file of SiteFiles is given
SiteDate(f) == IF f.lines[1] = Delim THEN f.lines[2].d ELSE f.mtime

\* C6: a slug whose file is in thoughts/ only is looked up in posts/ first
\* and then found in thoughts/: LoadPost returns what loading
\* thoughts/<slug>.md returns, a record with that file's slug and date when
\* the file can be read.
C6_FallsBackToSecondary ==
    (PostRequested /\ ~InPrimary(resp.slug) /\ InSecondary(resp.slug)) =>
        LET f == disk[SecondaryPath(resp.slug)]
            r == LoadPostFromFile(SecondaryPath(resp.slug), disk, disk, md)
        IN  /\ loaded.err = r.err
            /\ loaded.post = r.post
            /\ (f.readable /\ md = "ok") =>
                  /\ loaded.err = "nil"
                  /\ loaded.post.Slug = resp.slug
                  /\ loaded.post.Date = SiteDate(f)
                  /\ tmpl = "ok" =>
                        /\ resp.status = 200
                        /\ resp.body = <<PageChunk("post.gohtml", <<loaded.post>>)>>

C6_Witness ==
    /\ PostRequested
    /\ resp.slug = SlugOf(NameHelloWorld)
    /\ ~InPrimary(resp.slug)
    /\ InSecondary(resp.slug)
    /\ PrimaryPath(SlugOf(NameB)) \in DOMAIN disk
    /\ disk[SecondaryPath(resp.slug)] = DatedFile(MaxDate)
    /\ loaded.err = "nil"
    /\ loaded.post.Date = MaxDate
    /\ resp.status = 200

\* C7: a request for a slug, the empty one included, whose file is in
\* neither directory ends as not found: LoadPost returns a not-exist error
\* and PostHandler answers 404.
C7_AbsentIsNotFound ==
    (PostRequested /\ ~InPrimary(resp.slug) /\ ~InSecondary(resp.slug)) =>
        /\ IsNotExist(loaded.err)
        /\ loaded.post = EmptyPost
        /\ resp.status = 404
        /\ ~resp.aborted
        /\ resp.body = <<ErrorChunk("Post not found")>>

C7_Witness ==
    /\ PostRequested
    /\ resp.slug = <<>>
    /\ InPrimary(SlugOf(NameB))
    /\ InSecondary(SlugOf(NameHelloWorld))
    /\ tmpl = "missing"
    /\ resp.status = 404

\* the files a page's handler loads, and the ways it can fail
TargetFiles ==
    CASE resp.page = "home" -> {p \in DOMAIN disk : p[1] = "posts"}
      [] resp.page = "thoughts" -> {p \in DOMAIN disk : p[1] = "thoughts"}
      [] resp.page = "about" -> {AboutPath} \cap DOMAIN disk
      [] OTHER -> IF InPrimary(resp.slug) THEN {PrimaryPath(resp.slug)}
                  ELSE IF InSecondary(resp.slug) THEN {SecondaryPath(resp.slug)}
                  ELSE {}
NotFound == resp.page = "post" /\ TargetFiles = {}
ReadFailure == \E p \in TargetFiles : ~disk[p].readable
RenderFailure == md = "fail" /\ TargetFiles # {}
TemplateFailure == tmpl # "ok"
HardFailure == ~NotFound /\ (ReadFailure \/ RenderFailure \/ TemplateFailure)

\* C8: in live mode every handler answers a read failure of a file that
\* exists, a Markdown failure or a template failure with 500, and 404 is
\* answered only for a slug that is in neither content directory.
C8_HardFailuresAre500 ==
    resp.page # "" =>
        /\ HardFailure => resp.status = 500
        /\ resp.status = 404 => NotFound

\* C9: when a page fails during static generation, no file is written for
\* it, no later page is generated and the run ends with a fatal error.
C9_GenerationAllOrNothing ==
    \A i \in 1..Len(gen.log) :
        gen.log[i].status # 0 =>
            /\ ~gen.log[i].written
            /\ i = Len(gen.log)
            /\ gen.pc = "fatal"

\* the output paths
IndexHtml == OutPath("", <<>>, "index.html")
AboutHtml == OutPath("", <<>>, "about.html")
ThoughtsHtml == OutPath("", <<>>, "thoughts.html")
SlugHelloWorld == <<"h", "e", "l", "l", "o", "-", "w", "o", "r", "l", "d">>
SlugB == <<"b">>
PostHtml(slug) == OutPath("post", slug, "index.html")
MarkdownFiles == {p \in DOMAIN disk : p[1] \in {"posts", "thoughts"}}
SlugBHash == <<"b", "#">>
ExpectedSlug(p) ==
    IF p[2] = NameHelloWorld THEN SlugHelloWorld
    ELSE IF p[2] = NameB THEN SlugB
    ELSE SlugBHash

\* C10: after a run that ended with success the output tree holds
\* index.html, about.html, thoughts.html and post/<slug>/index.html for
\* every Markdown file of posts/ and thoughts/, and nothing else; every
\* Markdown file was enumerated.
C10_OutputTree ==
    gen.pc = "success" =>
        /\ DOMAIN out = {IndexHtml, AboutHtml, ThoughtsHtml}
                           \cup {PostHtml(ExpectedSlug(p)) : p \in MarkdownFiles}
        /\ Len(gen.log) = 3 + Cardinality(MarkdownFiles)
        /\ \A p \in MarkdownFiles :
              \E i \in 1..Len(gen.log) : gen.log[i].path = PostHtml(ExpectedSlug(p))

C10_Witness ==
    /\ gen.pc = "success"
    /\ PrimaryPath(SlugHelloWorld) \in DOMAIN disk
    /\ SecondaryPath(SlugB) \in DOMAIN disk
    /\ Cardinality(MarkdownFiles) = 2
    /\ PostHtml(SlugHelloWorld) \in DOMAIN out
    /\ PostHtml(SlugB) \in DOMAIN out
    /\ tmpl = "ok"
    /\ md = "ok"

\* C11: a second run of the generator over unchanged sources and templates
\* leaves the output tree, file by file and byte by byte, as the first run
\* left it, the order of the posts on the listing pages included: the tree
\* is that of the first run all through a second run that has not failed, and
\* when it ends.
C11_GenerationIdempotent ==
    (gen.run = 2 /\ gen.pc \notin {"fatal", "panic"}) => out = gen.first

C11_Witness ==
    /\ gen.run = 2
    /\ gen.pc = "success"
    /\ tmpl = "ok"
    /\ md = "ok"
    /\ Len(gen.log) = 7
    /\ disk[PrimaryPath(SlugB)] = DatedFile(MaxDate)
    /\ disk[PrimaryPath(SlugHelloWorld)] = PlainFile(1)
    /\ out[IndexHtml][1].data[1].Slug = SlugB
    /\ out[IndexHtml][1].data[2].Slug = SlugHelloWorld
    /\ out = gen.first

\* SpecDir: the matched files that cannot be loaded, by their place in the
\* glob order (a, aa, aaa, ...)
Unloadable == {i \in 1..NFiles : ~disk[Join(coll.dir, DirName(i))].readable}
FirstOf(S) == CHOOSE i \in S : \A j \in S : i <= j

\* C12: the matched files are loaded in glob order; when one of them cannot
\* be loaded, loadPostsFromDirectory returns its error and no post, and has
\* loaded no file after it; when all load, it returns one post for each; a
\* pattern that filepath.Glob rejects ends the call with that error before
\* any file is loaded.
C12_AllOrNothing ==
    coll.called =>
        IF coll.dir \notin {"posts", "thoughts"}
        THEN coll.err = "ErrBadPattern" /\ coll.posts = <<>> /\ coll.loads = 0
        ELSE IF Unloadable = {}
        THEN coll.err = "nil" /\ Len(coll.posts) = NFiles /\ coll.loads = NFiles
        ELSE /\ coll.err = "EACCES"
             /\ coll.posts = <<>>
             /\ coll.loads = FirstOf(Unloadable)

C12_Witness ==
    /\ coll.called
    /\ NFiles = 3
    /\ Unloadable = {2}
    /\ coll.err = "EACCES"
    /\ coll.posts = <<>>
    /\ coll.loads = 2

\* C13: the posts of posts/ are all discovered, and of any two of them the
\* one whose file was modified later stands first in the listing.
C13_SortedByModTime ==
    (CollOk /\ coll.dir = "posts") =>
        /\ \A i \in 1..NFiles : PlacesOf(DirSlug(i)) # {}
        /\ \A i, j \in 1..NFiles :
              disk[Join(coll.dir, DirName(i))].mtime
                    > disk[Join(coll.dir, DirName(j))].mtime =>
                 \A ki \in PlacesOf(DirSlug(i)), kj \in PlacesOf(DirSlug(j)) : ki < kj

\* C14: LoadPostFromFile fails at the read, else at the stat, else at the
\* renderer, in that order: a file that is missing or cannot be read gives the
\* read's error, a file read and then removed before the stat gives the
\* stat's error, a renderer failure gives its error; every error comes with
\* the empty record, and a nil error with a record whose title, date and slug
\* are all set.
C14_HardErrorPoints ==
    loaded.called =>
        LET there == loaded.path \in DOMAIN loaded.before
            readable == there /\ loaded.before[loaded.path].readable
            gone == loaded.path \notin DOMAIN disk
        IN  /\ ~there => loaded.err = "ENOENT"
            /\ (there /\ ~readable) => loaded.err = "EACCES"
            /\ (readable /\ gone) => loaded.err = "ENOENT"
            /\ (readable /\ ~gone /\ md = "fail") => loaded.err = "render"
            /\ (readable /\ ~gone /\ md = "ok") => loaded.err = "nil"
            /\ loaded.err # "nil" => loaded.post = EmptyPost
            /\ loaded.err = "nil" =>
                  /\ loaded.post.Title # <<>>
                  /\ ~IsZero(loaded.post.Date)
                  /\ loaded.post.Slug # <<>>

C14_Witness ==
    /\ loaded.called
    /\ loaded.path \in DOMAIN loaded.before
    /\ loaded.before[loaded.path].readable
    /\ loaded.path \notin DOMAIN disk
    /\ shape.kind = "ok"
    /\ DatesIn(shape.block) = {MaxDate}
    /\ md = "fail"
    /\ loaded.err = "ENOENT"
    /\ loaded.post = EmptyPost

\* C15: an invocation during which the source tree did not change answers
\* what its handler answers on that tree alone, whatever other invocations
\* did meanwhile and whatever the tree was before: nothing is kept from one
\* invocation to another, and a change of the tree made before a request
\* began shows in its response.
C15_NoSharedState ==
    \A r \in DOMAIN inv :
        (inv[r].pc = "done" /\ inv[r].clean) =>
            inv[r].resp = Respond(inv[r].page, inv[r].slug,
                                  Handle(inv[r].page, inv[r].slug, NewWriter("live"),
                                         inv[r].seen, md, tie, tmpl))

C15_Witness ==
    /\ edits = 1
    /\ \A r \in Reqs : inv[r].pc = "done" /\ inv[r].clean /\ inv[r].page = "home"
    /\ inv["r1"].seen # disk
    /\ inv["r2"].seen = disk
    /\ Len(inv["r1"].resp.body[1].data) = 2
    /\ Len(inv["r2"].resp.body[1].data) = 2
    /\ inv["r1"].resp.body[1].data[1].Slug # inv["r2"].resp.body[1].data[1].Slug

\* the slugs that have a file in posts/ and a file in thoughts/, the record
\* LoadPostFromFile makes of a readable file of the site, and the places of
\* a path in the generator's log
BothDirs == {s \in {SlugHelloWorld, SlugB, SlugBHash} : InPrimary(s) /\ InSecondary(s)}
RecordOf(path) ==
    [Title |-> IF path[2] = NameHelloWorld
               THEN <<"H", "e", "l", "l", "o", " ", "W", "o", "r", "l", "d">>
               ELSE IF path[2] = NameB THEN <<"B">> ELSE <<"B", "#">>,
     Date |-> SiteDate(disk[path]),
     Slug |-> ExpectedSlug(path),
     Content |-> <<[tag |-> "p", src |-> TextX]>>]
WritesOf(path) == {i \in 1..Len(gen.log) : gen.log[i].path = path}

\* C16: for a slug with a file in posts/ and a file in thoughts/, LoadPost
\* returns what loading posts/<slug>.md returns; a run of the generator
\* writes post/<slug>/index.html twice, and whenever that page is there it
\* is the rendering of posts/<slug>.md (when that file can be read and
\* rendered), so that no post page shows the record of thoughts/<slug>.md.
C16_PrimaryWins ==
    /\ (PostRequested /\ resp.slug \in BothDirs) =>
           LET r == LoadPostFromFile(PrimaryPath(resp.slug), disk, disk, md) IN
           loaded.err = r.err /\ loaded.post = r.post
    /\ \A s \in BothDirs :
           /\ gen.pc = "success" => Cardinality(WritesOf(PostHtml(s))) = 2
           /\ (PostHtml(s) \in DOMAIN out /\ disk[PrimaryPath(s)].readable
                  /\ md = "ok" /\ tmpl = "ok") =>
                 out[PostHtml(s)] =
                    <<PageChunk("post.gohtml", <<RecordOf(PrimaryPath(s))>>)>>

\* C17: after a run that ended with success, every post listed on
\* index.html or on thoughts.html has its page: post/<slug>/index.html is in
\* the output tree for the slug of every record of the two listings.
C17_ListedPostsHavePages ==
    gen.pc = "success" =>
        \A listing \in {IndexHtml, ThoughtsHtml} :
            \A c \in 1..Len(out[listing]) :
                out[listing][c].kind = "page" =>
                    \A k \in 1..Len(out[listing][c].data) :
                        PostHtml(out[listing][c].data[k].Slug) \in DOMAIN out

C17_Witness ==
    /\ gen.pc = "success"
    /\ gen.run = 1
    /\ Len(out[IndexHtml]) = 1
    /\ out[IndexHtml][1].kind = "page"
    /\ Len(out[IndexHtml][1].data) = 2
    /\ Len(out[ThoughtsHtml]) = 1
    /\ out[ThoughtsHtml][1].kind = "page"
    /\ \E k \in 1..Len(out[ThoughtsHtml][1].data) :
          /\ out[ThoughtsHtml][1].data[k].Slug = SlugHelloWorld
          /\ ~InPrimary(SlugHelloWorld)
    /\ PostHtml(SlugHelloWorld) \in DOMAIN out
    /\ PostHtml(SlugBHash) \in DOMAIN out

====
